---- MODULE Spec2Model ----
(***************************************************************************)
(* Model of scripts/update-xcode-team.py: a script that patches the        *)
(* Release build configuration 13B07F951A680F5B00A75B9A of                 *)
(* insurtech.xcodeproj/project.pbxproj.                                    *)
(*                                                                         *)
(* The project file is a sequence of lexical tokens.  Each token is a      *)
(* record [k, v]:                                                          *)
(*   HDR_R  "13B07F951A680F5B00A75B9A /* Release */ = {"                   *)
(*   HDR_D  the header of another configuration, "... /* Debug */ = {"     *)
(*   BS     "buildSettings = {"                                            *)
(*   CLOSE  "}" (with the ";" that follows it)                             *)
(*   IDT    "IPHONEOS_DEPLOYMENT_TARGET = 15.1;"                           *)
(*   DT     "DEVELOPMENT_TEAM = <v>;"        v a team identifier           *)
(*   CSS    "CODE_SIGN_STYLE = <v>;"         v = 1 Manual, v = 0 Automatic *)
(*   OTH    any other setting, free of "}" and of the names above          *)
(* The regular expressions of the script are evaluated on the tokens with  *)
(* the semantics of re.search: leftmost start, greedy [^}]* with           *)
(* backtracking, [^}]* never crossing a CLOSE token.                       *)
(*                                                                         *)
(* Input domain: project files as Xcode writes them.  The Release header   *)
(* occurs at most once, a configuration has one buildSettings dictionary   *)
(* whose names are distinct, and no setting value contains "}".            *)
(* IOS_TEAM_ID is an identifier without regular-expression or "}"          *)
(* characters.                                                             *)
(*                                                                         *)
(* State: file is the project file on disk; pc, action, team_id, content,  *)
(* exit, outcome are the running invocation (outcome names the message it  *)
(* printed).  orig (the file when the invocation started), openedW (the    *)
(* file was opened with mode 'w'), runs, prev (the invocation before this  *)
(* one) and stored (the IOS_TEAM_ID of the last team run that wrote) are   *)
(* history variables.                                                      *)
(***************************************************************************)
EXTENDS Integers, Sequences, FiniteSets, TLC

VARIABLES file, pc, action, team_id, content, exit, outcome, orig, openedW,
          runs, prev, stored

vars == <<file, pc, action, team_id, content, exit, outcome, orig, openedW,
          runs, prev, stored>>

(* ------------------------------ bounds -------------------------------- *)
MaxSettings == 3
MaxRuns == 2

TeamIds == {1, 2}
\* argv[1]: the two documented actions, and any other word
Actions == {"team", "code_sign"}
Argv == Actions \cup {"other"}

(* ------------------------------ tokens -------------------------------- *)
Tok(k, v) == [k |-> k, v |-> v]

HDR_R == Tok("HDR_R", 0)
HDR_D == Tok("HDR_D", 0)
BS == Tok("BS", 0)
CLOSE == Tok("CLOSE", 0)
IDT == Tok("IDT", 0)
OTH == Tok("OTH", 0)
DT(t) == Tok("DT", t)
CSS_M == Tok("CSS", 1)
CSS_A == Tok("CSS", 0)

\* 'NAME' in text : the substring test of the script, on tokens
HasKey(s, k) == \E i \in DOMAIN s : s[i].k = k

CountKey(s, k) == Cardinality({i \in DOMAIN s : s[i].k = k})

CountTok(s, t) == Cardinality({i \in DOMAIN s : s[i] = t})

SetMax(S) == CHOOSE x \in S : \A y \in S : y <= x

SetMin(S) == CHOOSE x \in S : \A y \in S : x <= y

(* --------------------------- regular expressions ---------------------- *)
NoMatch == [found |-> FALSE, bs |-> 0, a |-> 0, close |-> 0]

\* the first "}" after position i, 0 when there is none
FirstClose(s, i) ==
    LET C == {c \in DOMAIN s : c > i /\ s[c].k = "CLOSE"}
    IN  IF C = {} THEN 0 ELSE SetMin(C)

\* release_pattern tried at the header at position i:
\*   HDR_R [^}]* "buildSettings = {" ([^}]*) "}"
ReleaseMatchAt(s, i) ==
    LET c == FirstClose(s, i)
        J == {j \in DOMAIN s : i < j /\ j < c /\ s[j].k = "BS"}
    IN  IF c = 0 \/ J = {} THEN NoMatch
        ELSE [found |-> TRUE, bs |-> SetMax(J), a |-> SetMax(J), close |-> c]

\* pattern tried at the header at position i:
\*   (HDR_R [^}]* "buildSettings = {") ([^}]* anchor) ([^}]*) ("}")
\* a is the position of the anchor that ends group 2, close the start of group 4
AnchorMatchAt(s, i, anchor) ==
    LET c == FirstClose(s, i)
        J == {j \in DOMAIN s : i < j /\ j < c /\ s[j].k = "BS"}
        A == {a \in DOMAIN s : a < c /\ s[a] = anchor /\ \E j \in J : j < a}
    IN  IF c = 0 \/ A = {} THEN NoMatch
        ELSE [found |-> TRUE,
              bs |-> SetMax({j \in J : j < SetMax(A)}),
              a |-> SetMax(A), close |-> c]

\* re.search: the match at the leftmost header where the pattern matches
ReleaseSearch(s) ==
    LET H == {i \in DOMAIN s : s[i].k = "HDR_R" /\ ReleaseMatchAt(s, i).found}
    IN  IF H = {} THEN NoMatch ELSE ReleaseMatchAt(s, SetMin(H))

AnchorSearch(s, anchor) ==
    LET H == {i \in DOMAIN s :
                 s[i].k = "HDR_R" /\ AnchorMatchAt(s, i, anchor).found}
    IN  IF H = {} THEN NoMatch ELSE AnchorMatchAt(s, SetMin(H), anchor)

\* re.sub(r'DEVELOPMENT_TEAM = [^;]*;', f'DEVELOPMENT_TEAM = {team_id};', content)
SubTeam(s, t) == [i \in DOMAIN s |-> IF s[i].k = "DT" THEN DT(t) ELSE s[i]]

\* Variants of the splice: the new line written twice, written before the
\* anchor instead of after it, and written after group 3 instead of before it.
SpliceTwice(s, m, new) ==
    SubSeq(s, 1, m.a) \o <<new, new>> \o SubSeq(s, m.a + 1, Len(s))

SpliceBeforeAnchor(s, m, new) ==
    SubSeq(s, 1, m.a - 1) \o <<new>> \o SubSeq(s, m.a, Len(s))

SpliceAfterGroup3(s, m, new) ==
    SubSeq(s, 1, m.close - 1) \o <<new>> \o SubSeq(s, m.close, Len(s))

\* content[:match.end(2)] + new_line + build_settings + content[match.end(3):]
Splice(s, m, new) ==
    SubSeq(s, 1, m.a) \o <<new>> \o SubSeq(s, m.a + 1, m.close - 1)
        \o SubSeq(s, m.close, Len(s))

Group3(s, m) == SubSeq(s, m.a + 1, m.close - 1)

(* ------------------------------ the branches -------------------------- *)
Result(c, o, e) == [content |-> c, outcome |-> o, exit |-> e]

\* if action == 'team'
TeamPatch(s, t) ==
    LET rm == ReleaseSearch(s)
        m == AnchorSearch(s, IDT)
    IN  IF rm.found /\ HasKey(SubSeq(s, rm.bs + 1, rm.close - 1), "DT")
        THEN Result(SubTeam(s, t), "updated", 0)
        ELSE IF m.found
             THEN IF ~HasKey(Group3(s, m), "DT")
                  THEN Result(Splice(s, m, DT(t)), "added", 0)
                  ELSE Result(s, "exists", 0)
             ELSE Result(s, "notfound", 1)

\* Variants of the code_sign branch: the anchor without the team identifier
\* (any DEVELOPMENT_TEAM of the file), and a missing anchor reported as success.
CodeSignAnyTeam(s, t) ==
    LET V == {s[i].v : i \in {j \in DOMAIN s : s[j].k = "DT"}}
        M == {v \in V : AnchorSearch(s, DT(v)).found}
    IN  IF M = {} THEN Result(s, "notfound", 1)
        ELSE LET m == AnchorSearch(s, DT(SetMax(M)))
             IN  IF ~HasKey(Group3(s, m), "CSS")
                 THEN Result(Splice(s, m, CSS_M), "added", 0)
                 ELSE Result(s, "exists", 0)

CodeSignLenient(s, t) ==
    LET m == AnchorSearch(s, DT(t))
    IN  IF m.found
        THEN IF ~HasKey(Group3(s, m), "CSS")
             THEN Result(Splice(s, m, CSS_M), "added", 0)
             ELSE Result(s, "exists", 0)
        ELSE Result(s, "notfound", 0)

\* elif action == 'code_sign'
CodeSignPatch(s, t) ==
    LET m == AnchorSearch(s, DT(t))
    IN  IF m.found
        THEN IF ~HasKey(Group3(s, m), "CSS")
             THEN Result(Splice(s, m, CSS_M), "added", 0)
             ELSE Result(s, "exists", 0)
        ELSE Result(s, "notfound", 1)

\* lines 21-67; with any other argv[1] neither branch runs
PatchOf(a, s, t) ==
    IF a = "team" THEN TeamPatch(s, t)
    ELSE IF a = "code_sign" THEN CodeSignPatch(s, t)
    ELSE Result(s, "none", 0)

(* ------------------------------ project files ------------------------- *)
NoFile == [exists |-> FALSE, text |-> <<>>]
TextFile(s) == [exists |-> TRUE, text |-> s]

SettingToks == {IDT, OTH} \cup {DT(t) : t \in TeamIds}
                 \cup {CSS_M, CSS_A}

\* the settings of one configuration: a dictionary, so each name occurs once
SettingLists ==
    {s \in UNION {[1..n -> SettingToks] : n \in 0..MaxSettings} :
        /\ CountKey(s, "IDT") <= 1
        /\ CountKey(s, "DT") <= 1
        /\ CountKey(s, "CSS") <= 1}

Block(h, s) == <<h, BS>> \o s \o <<CLOSE, CLOSE>>

\* the configurations before and after the Release configuration
BlocksBefore == {<<>>} \cup {Block(HDR_D, <<OTH, DT(t)>>) : t \in TeamIds}

BlocksAfter == {<<>>, Block(HDR_D, <<IDT>>)}

ReleaseBlocks == {<<>>, <<HDR_R, CLOSE>>} \cup {Block(HDR_R, s) : s \in SettingLists}

ProjectFiles ==
    {TextFile(d \o r \o e) :
        d \in BlocksBefore, r \in ReleaseBlocks, e \in BlocksAfter}
      \cup {NoFile}

NoRun == [action |-> "none", team_id |-> 0, exit |-> -1, outcome |-> "none",
          orig |-> NoFile, after |-> NoFile]

(* ------------------------------ the script ---------------------------- *)
Init ==
    /\ file \in ProjectFiles
    /\ pc = "idle"
    /\ action = "none"
    /\ team_id = 0
    /\ content = <<>>
    /\ exit = -1
    /\ outcome = "none"
    /\ orig = file
    /\ openedW = FALSE
    /\ runs = 0
    /\ prev = NoRun
    /\ stored = 0

\* lines 10-12: one invocation, with IOS_TEAM_ID = t and argv[1] = a
Start(a, t) ==
    /\ pc \in {"idle", "done"}
    /\ runs < MaxRuns
    /\ pc' = "exists"
    /\ action' = a
    /\ team_id' = t
    /\ content' = <<>>
    /\ exit' = -1
    /\ outcome' = "none"
    /\ orig' = file
    /\ openedW' = FALSE
    /\ runs' = runs + 1
    /\ prev' = IF pc = "done"
               THEN [action |-> action, team_id |-> team_id, exit |-> exit,
                     outcome |-> outcome, orig |-> orig, after |-> file]
               ELSE prev
    /\ UNCHANGED <<file, stored>>

\* lines 14-16
CheckExists ==
    /\ pc = "exists"
    /\ IF file.exists
       THEN pc' = "read" /\ UNCHANGED <<exit, outcome>>
       ELSE pc' = "done" /\ exit' = 1 /\ outcome' = "missing"
    /\ UNCHANGED <<file, action, team_id, content, orig, openedW, runs, prev, stored>>

\* lines 18-19
ReadFile ==
    /\ pc = "read"
    /\ content' = file.text
    /\ pc' = "patch"
    /\ UNCHANGED <<file, action, team_id, exit, outcome, orig, openedW, runs, prev, stored>>

\* Variant: the write reached on the failure paths as well.
AlwaysWrite(r) == "open"

\* the state after the branch of the chosen action (lines 21-67)
AfterPatch(r) == IF r.exit = 1 THEN "done" ELSE "open"

Patch ==
    /\ pc = "patch"
    /\ LET r == PatchOf(action, content, team_id)
       IN  /\ content' = r.content
           /\ outcome' = r.outcome
           /\ exit' = IF r.exit = 1 THEN 1 ELSE exit
           /\ pc' = AfterPatch(r)
    /\ UNCHANGED <<file, action, team_id, orig, openedW, runs, prev, stored>>

\* line 70: open(project_file, 'w') truncates the file
OpenForWrite ==
    /\ pc = "open"
    /\ file' = TextFile(<<>>)
    /\ openedW' = TRUE
    /\ pc' = "write"
    /\ UNCHANGED <<action, team_id, content, exit, outcome, orig, runs, prev, stored>>

\* line 71, and the normal end of the script
WriteContent ==
    /\ pc = "write"
    /\ file' = TextFile(content)
    /\ exit' = 0
    /\ pc' = "done"
    /\ stored' = IF action = "team" THEN team_id ELSE stored
    /\ UNCHANGED <<action, team_id, content, outcome, orig, openedW, runs, prev>>

Next ==
    \/ \E a \in Argv, t \in TeamIds : Start(a, t)
    \/ CheckExists
    \/ ReadFile
    \/ Patch
    \/ OpenForWrite
    \/ WriteContent

Spec == Init /\ [][Next]_vars

(* ------------------------- the Release configuration ------------------ *)
\* The Release configuration as the project file lays it out: its header,
\* "buildSettings = {" next, the settings, and the "}" that ends them.
RelPos(s) ==
    IF \E i \in DOMAIN s : s[i] = HDR_R
    THEN SetMin({i \in DOMAIN s : s[i] = HDR_R}) ELSE 0

RelHasSettings(s) ==
    /\ RelPos(s) # 0
    /\ RelPos(s) < Len(s)
    /\ s[RelPos(s) + 1] = BS
    /\ FirstClose(s, RelPos(s)) # 0

RelFirst(s) == RelPos(s) + 2

RelEnd(s) == FirstClose(s, RelPos(s))

RelSettings(s) ==
    IF RelHasSettings(s) THEN SubSeq(s, RelFirst(s), RelEnd(s) - 1) ELSE <<>>

\* everything of the file that is not a setting of the Release configuration
OutsideRel(s) ==
    IF RelHasSettings(s)
    THEN SubSeq(s, 1, RelFirst(s) - 1) \o SubSeq(s, RelEnd(s), Len(s))
    ELSE s

HasTok(s, t) == \E i \in DOMAIN s : s[i] = t

Done == pc = "done"

\* this run repeats the run before it: same action, same IOS_TEAM_ID
Repeats == Done /\ action \in Actions /\ prev.action = action /\ prev.team_id = team_id

\* the anchor and the target setting of the two actions
AnchorOf(a, t) == IF a = "team" THEN IDT ELSE DT(t)
TargetKey(a) == IF a = "team" THEN "DT" ELSE "CSS"
TargetOf(a, t) == IF a = "team" THEN DT(t) ELSE CSS_M

\* the run started from a Release block with the anchor and without the target
InsertCase ==
    /\ Done /\ action \in Actions /\ orig.exists
    /\ HasTok(RelSettings(orig.text), AnchorOf(action, team_id))
    /\ ~HasKey(RelSettings(orig.text), TargetKey(action))

(* -------------------------------- claims ------------------------------ *)

\* C1: a run of team or code_sign that starts from a Release block holding
\* the anchor of its action and not holding its target setting exits 0 and
\* leaves the block with the target setting exactly once, with the value
\* DEVELOPMENT_TEAM = IOS_TEAM_ID, resp. CODE_SIGN_STYLE = Manual.
C1_InsertsExactlyOnce ==
    InsertCase =>
        /\ exit = 0
        /\ CountKey(RelSettings(file.text), TargetKey(action)) = 1
        /\ CountTok(RelSettings(file.text), TargetOf(action, team_id)) = 1

\* a code_sign run inserted its setting after a team run inserted its own
C1_Witness ==
    /\ InsertCase /\ action = "code_sign" /\ outcome = "added"
    /\ prev.action = "team" /\ prev.outcome = "added"

\* C2 (as claimed): when a run exited 0, the same action run again with the
\* same IOS_TEAM_ID exits 0 and leaves the file as the first run left it.
C2_SecondRunKeepsFile ==
    (Repeats /\ prev.exit = 0) => (exit = 0 /\ file = prev.after)

\* C3 (as claimed): when a run inserted its setting, the same action run
\* again with the same IOS_TEAM_ID ends in the "already exists" outcome.
C3_SecondRunAlreadyExists ==
    (Repeats /\ prev.outcome = "added") => outcome = "exists"

\* C3 (amended): after a run that inserted its setting, the repeated run
\* never inserts again: code_sign ends in "already exists", team ends in
\* "Updated" (it rewrites DEVELOPMENT_TEAM with the same value).
C3_SecondRunNeverAdds ==
    (Repeats /\ prev.outcome = "added") =>
        /\ exit = 0
        /\ action = "code_sign" => outcome = "exists"
        /\ action = "team" => outcome = "updated"

C3_Witness ==
    /\ Repeats /\ prev.outcome = "added"
    /\ action = "code_sign" /\ outcome = "exists"

\* C4: a run that exits 1 never opens the file for writing: an existing
\* file keeps the content it had at the start, a missing file stays missing.
\* A finished run leaves the original content or the whole patched content.
C4_NoWriteOnFailure ==
    /\ exit = 1 => (~openedW /\ file = orig)
    /\ Done => (file = orig \/ (exit = 0 /\ file = TextFile(content)))
    /\ (Done /\ exit = 0 /\ outcome \in {"exists", "none"}) => file = orig

\* a run on an existing file that failed to match, after a run that wrote
C4_Witness ==
    Done /\ exit = 1 /\ orig.exists /\ prev.exit = 0 /\ prev.outcome = "added"

\* the Release block the chosen action looks for is in the file
Located(a, s, t) ==
    /\ RelHasSettings(s)
    /\ IF a = "team"
       THEN HasKey(RelSettings(s), "DT") \/ HasTok(RelSettings(s), IDT)
       ELSE HasTok(RelSettings(s), DT(t))

\* C5: a finished run has exit code 0 or 1; the code is 1 exactly when the
\* file is missing or the action cannot locate its Release block; a run
\* that added, updated or found the setting present has code 0.
C5_ExitCode ==
    Done =>
        /\ exit \in {0, 1}
        /\ action \in Actions =>
              (exit = 1 <=> (~orig.exists \/ ~Located(action, orig.text, team_id)))
        /\ outcome \in {"added", "updated", "exists"} => exit = 0

\* code_sign fails on a file whose Release block holds another team
C5_Witness ==
    /\ Done /\ exit = 1 /\ action = "code_sign" /\ orig.exists
    /\ HasKey(RelSettings(orig.text), "DT")

\* C6 (as claimed): the Release block never holds more than one
\* CODE_SIGN_STYLE setting (the project files start with at most one).
C6_AtMostOneCodeSignStyle ==
    CountKey(RelSettings(file.text), "CSS") <= 1

\* C7 (as claimed): when team updates, the DEVELOPMENT_TEAM of the Release
\* block becomes IOS_TEAM_ID and nothing outside the block changes.
C7_UpdateOnlyRelease ==
    (Done /\ action = "team" /\ outcome = "updated") =>
        /\ HasTok(RelSettings(file.text), DT(team_id))
        /\ OutsideRel(file.text) = OutsideRel(orig.text)

\* C8: an insertion splices the new setting directly after the anchor in
\* the Release block and keeps every other token of the file in place.
C8_InsertionFrame ==
    (Done /\ outcome = "added") =>
        \E p \in DOMAIN orig.text :
            /\ RelHasSettings(orig.text)
            /\ RelFirst(orig.text) <= p /\ p < RelEnd(orig.text)
            /\ orig.text[p] = AnchorOf(action, team_id)
            /\ file.text = SubSeq(orig.text, 1, p)
                             \o <<TargetOf(action, team_id)>>
                             \o SubSeq(orig.text, p + 1, Len(orig.text))

\* an insertion with settings on both sides of the anchor and other blocks
C8_Witness ==
    /\ Done /\ outcome = "added" /\ action = "team"
    /\ RelSettings(orig.text) = <<OTH, IDT, CSS_A>>
    /\ RelPos(orig.text) > 1
    /\ RelEnd(orig.text) + 1 < Len(orig.text)

\* the parts of C9 that do not speak of CODE_SIGN_STYLE = Manual
C9_Order ==
    /\ (Done /\ action = "code_sign" /\ exit = 0) =>
           HasTok(RelSettings(orig.text), DT(team_id))
    /\ (Done /\ action = "code_sign" /\ orig.exists
          /\ HasTok(RelSettings(orig.text), IDT)
          /\ ~HasKey(RelSettings(orig.text), "DT")) =>
           (exit = 1 /\ file = orig)
    /\ (Done /\ action = "code_sign" /\ stored # 0 /\ stored # team_id) =>
           exit = 1

\* team, then code_sign with the same IOS_TEAM_ID, from a Release block with
\* the IPHONEOS_DEPLOYMENT_TARGET anchor and no DEVELOPMENT_TEAM
TeamThenCodeSign ==
    /\ Done /\ action = "code_sign"
    /\ prev.action = "team" /\ prev.team_id = team_id
    /\ prev.orig.exists
    /\ HasTok(RelSettings(prev.orig.text), IDT)
    /\ ~HasKey(RelSettings(prev.orig.text), "DT")

\* the settings that follow the anchor in a Release block
AfterAnchor(s) ==
    LET b == RelSettings(s)
    IN  IF HasTok(b, IDT)
        THEN SubSeq(b, SetMax({i \in DOMAIN b : b[i] = IDT}) + 1, Len(b))
        ELSE <<>>

\* C9 (as claimed): code_sign exits 0 only on a Release block that holds
\* DEVELOPMENT_TEAM = IOS_TEAM_ID; run first it exits 1 and changes nothing;
\* team then code_sign both exit 0 and leave the block with
\* DEVELOPMENT_TEAM = IOS_TEAM_ID and CODE_SIGN_STYLE = Manual; code_sign with
\* another IOS_TEAM_ID than the last team run stored exits 1.
C9_OrderingAsClaimed ==
    /\ C9_Order
    /\ TeamThenCodeSign =>
           /\ prev.exit = 0 /\ exit = 0
           /\ HasTok(RelSettings(file.text), DT(team_id))
           /\ HasTok(RelSettings(file.text), CSS_M)

\* C9 (amended): as claimed, except that team then code_sign leave the block
\* with CODE_SIGN_STYLE = Manual unless a CODE_SIGN_STYLE setting already
\* followed the anchor, and then that setting is kept with its value.
C9_OrderingAmended ==
    /\ C9_Order
    /\ TeamThenCodeSign =>
           /\ prev.exit = 0 /\ exit = 0
           /\ HasTok(RelSettings(file.text), DT(team_id))
           /\ IF HasKey(AfterAnchor(prev.orig.text), "CSS")
              THEN /\ outcome = "exists"
                   /\ \A v \in {CSS_M, CSS_A} :
                         CountTok(RelSettings(file.text), v)
                           = CountTok(RelSettings(prev.orig.text), v)
              ELSE HasTok(RelSettings(file.text), CSS_M)

C9_Witness ==
    /\ TeamThenCodeSign /\ exit = 0 /\ outcome = "added"
    /\ prev.outcome = "added" /\ stored = team_id

====
